---- MODULE Spec2Model ----
(***************************************************************************)
(* A model of pomo (src/src/lib.rs): the pause-aware Countdown state       *)
(* machine (mod timer), the state-change Logger and its span formatter     *)
(* (mod events) and the duration parser (mod parser).                      *)
(*                                                                         *)
(* Time is counted in milliseconds.  `now` is the reading of the clock     *)
(* (Local::now() for the Countdown, Instant::now() for the Logger); it     *)
(* only moves forward, by the steps of an Advance action.                  *)
(***************************************************************************)
EXTENDS Integers, Sequences, FiniteSets, TLC

VARIABLES
    now,        \* the clock
    state,      \* Countdown.state
    start,      \* Countdown.start
    duration,   \* Countdown.duration (the target)
    running,    \* Countdown.running
    paused,     \* Countdown.paused
    panicked,   \* a Duration subtraction or an unwrap() has panicked
    op,         \* the last Countdown method called
    ret,        \* what the last tick() returned
    elapsed,    \* the local `elapsed` of the last tick()
    ntoggles,   \* how many times toggle() was called
    quit,       \* finish() was called
    last_tick,  \* the clock at the last tick()
    t_pause,    \* the clock at the toggle() that paused
    pause_len,  \* the clock time between that toggle() and the one resuming
    title,      \* Logger.title
    states,     \* Logger.states
    formatted,  \* what the last Logger::format() returned
    last_logged,    \* the state the last Logger::log() was called with
    nchanges,   \* the log() calls whose state differed from the call before
    raw_time,   \* the argument of parse_time, a sequence of characters
    parsed,     \* what parse_time returned, <<>> before the call
    pc,         \* where Pomodoro::run stands
    key_bytes,  \* the local `key_bytes` of run
    events,     \* what run has done since the last top of its loop, in order
    tick_hist,  \* what the tick() calls at the top of the loop returned
    q_at,       \* how many of them had returned when b'q' was read, else 0
    tick_accum, \* <<running, paused>> after the last of them before b'q'
    io_err,     \* a read, write or flush of run has failed
    result,     \* what run returned, None before it returns
    rings,      \* the local `rings` of Pomodoro::ring
    digits      \* <<what to_digit_strs last returned>>, <<>> before a call

cvars == <<now, state, start, duration, running, paused, panicked,
           op, ret, elapsed, ntoggles, quit>>

\* The bookkeeping of the one-pause session.
svars == <<last_tick, t_pause, pause_len>>

\* The Logger and the bookkeeping of its caller.
lvars == <<title, states, formatted, last_logged, nchanges>>

\* The parser's argument and result.
pvars == <<raw_time, parsed>>

\* Pomodoro::run.
rvars == <<pc, key_bytes, events, tick_hist, q_at, tick_accum, io_err,
           result, rings>>

\* timer::render.
dvars == <<digits>>

vars == <<cvars, svars, lvars, pvars, rvars, dvars>>

\* ------------------------------------------------------------------ bounds

\* The clock stops advancing here.
MaxNow == 450

\* toggle() is called at most this many times in one behaviour.
MaxToggles == 3

\* The clock advances by one of these between two calls.
Steps == {50, 100}

\* The targets a Countdown is constructed with.
Targets == {0, 100, 250}

\* The clock readings at construction.
Starts == {0, 50}

\* The clock of the one-pause session stops advancing here.
SessionMaxNow == 4500

\* The Logger holds at most this many Events.
MaxLog == 4

\* The clock of the Logger stops advancing here.
LogMaxNow == 25000

\* The clock advances by one of these between two calls of the Logger.
LogSteps == {5000, 5150}

\* The titles a Logger is constructed with.
Titles == {"work"}

\* u64 is modelled as an unsigned word of this many bits.
WordBits == 16

\* parse_time is given every string of at most this many characters of
\* RawAlphabet, and the strings of RawExamples.
MaxRawLen == 4

RawAlphabet == {"1", "9", ":", "+", "a"}

RawExamples ==
    { <<"5">>, <<"1", ":", "3", "0">>, <<"1", ":", "0", "0", ":", "0", "0">>,
      <<"9", "0", ":", "0", "0">>, <<"0", "0", "7">>,
      <<"a", "b", "c">>, <<"1", ":", ":", "2">>, <<"-", "1">>,
      <<"1", ":", "2", ":", "3", ":", "4">>,
      <<"2", "5", ":", "0", "0">>, <<"1", " ", "0">>,
      <<"1", "8", ":", "1", "2", ":", "1", "5">>,
      <<"1", "8", ":", "1", "2", ":", "1", "6">>,
      <<"1", "9", ":", "0", ":", "0">>, <<"0", ":", "1", "0", "9", "3", ":", "0">>,
      <<"1", "0", "9", "2", ":", "1", "6">>, <<"1", "1", "0", "0", ":", "0">>,
      <<"6", "5", "5", "3", "5">>, <<"6", "5", "5", "3", "6">>,
      <<"9", "9", "9", "9", "9">>, <<"3", "7", ":", "0", ":", "0">>,
      <<"2", "2", "0", "0", ":", "0">>, <<"1", "3", "1", "0", "7", "2">> }

\* The one-pause session: a 3 second target, a pause of about 1 second.
SessionTarget == 3 * 1000
SessionPause == 1 * 1000
SessionWaits == {SessionPause - 50, SessionPause, SessionPause + 50}

\* ------------------------------------------------------------ mod timer

Running == "Running"
Paused == "Paused"
Finished == "Finished"
State == {Running, Paused, Finished}

\* No state: what `ret` holds before the first tick().
None == "None"

\* Option<Duration>: Some(d) is <<d>>, None is <<>>.
Some(d) == <<d>>
NoDuration == <<>>

\* std Duration::checked_sub: None when the difference would be negative.
checked_sub(a, b) == IF a >= b THEN Some(a - b) ELSE NoDuration

\* pomo::SLEEP, the pause that ends a loop iteration: the tick interval.
SLEEP == 100

\* tick_running recomputing in every state but Paused, Finished included.
tick_running_unfrozen(st, e, run, pau) == IF st # Paused THEN e - pau ELSE run

\* tick_paused taking the whole sample, the running time not subtracted.
tick_paused_whole(st, e, run, pau) == IF st = Paused THEN e ELSE pau

\* tick_paused with the Paused arm missing: paused time never accrues.
tick_paused_never(st, e, run, pau) == pau

\* A running time that goes on while Paused.
tick_running_while_paused(st, e, run, pau) ==
    IF st = Finished THEN run ELSE e - pau

\* A paused time forgotten when the Countdown is not Paused.
tick_paused_resets(st, e, run, pau) == IF st = Paused THEN e - run ELSE 0

\* Countdown::tick, the match on self.state: the accumulator of the state
\* held is recomputed from the one sample; Finished recomputes nothing.
tick_running(st, e, run, pau) == IF st = Running THEN e - pau ELSE run

tick_paused(st, e, run, pau) == IF st = Paused THEN e - run ELSE pau

\* A Countdown that runs out one SLEEP late.
expired_late(dur, run) == run > dur + SLEEP

\* expired at equality too: running >= duration.
expired_at_equality(dur, run) == run >= dur

\* Countdown::tick, the expiry test on the recomputed running time.
expired(dur, run) == checked_sub(dur, run) = NoDuration

\* tick_state with the expiry test left out.
tick_state_no_expiry(st, dur, run) == st

\* Countdown::tick, the state after the expiry test.
tick_state(st, dur, run) == IF expired(dur, run) THEN Finished ELSE st

\* toggle_state with Finished toggled back to Running.
toggle_state_revives(st) == IF st = Running THEN Paused ELSE Running

\* toggle_state without the arm from Paused back to Running.
toggle_state_one_way(st) == IF st = Running THEN Paused ELSE st

\* Countdown::toggle
toggle_state(st) ==
    CASE st = Running -> Paused
      [] st = Paused -> Running
      [] st = Finished -> Finished

\* A finish() that only ends a running Countdown.
finish_state_from_running(st) == IF st = Running THEN Finished ELSE st

\* Countdown::finish
finish_state(st) == Finished

\* Countdown::new
new(d, t0) ==
    /\ state = Running
    /\ start = t0
    /\ duration = d
    /\ running = 0
    /\ paused = 0

\* Countdown::tick.  to_std().unwrap() panics on a negative difference and
\* Duration's `-` panics on a negative result.
tick ==
    LET e == now - start
        run == tick_running(state, e, running, paused)
        pau == tick_paused(state, e, running, paused)
    IN  IF e < 0 \/ run < 0 \/ pau < 0
        THEN /\ panicked' = TRUE
             /\ UNCHANGED <<state, running, paused, ret, elapsed>>
        ELSE /\ elapsed' = e
             /\ running' = run
             /\ paused' = pau
             /\ state' = tick_state(state, duration, run)
             /\ ret' = tick_state(state, duration, run)
             /\ UNCHANGED panicked

\* Countdown::toggle
toggle ==
    /\ state' = toggle_state(state)
    /\ UNCHANGED <<running, paused, panicked, ret, elapsed>>

\* Countdown::finish
finish ==
    /\ state' = finish_state(state)
    /\ UNCHANGED <<running, paused, panicked, ret, elapsed>>

\* ----------------------------------------------------------- mod events

\* Logger::new
Logger_new(t) ==
    /\ title = t
    /\ states = <<>>

\* Event { state, time }
Event(s, t) == [state |-> s, time |-> t]

\* A log that leaves Finished out.
log_unless_finished(sts, s, t) ==
    IF s # Finished /\ (sts = <<>> \/ sts[Len(sts)].state # s)
    THEN Append(sts, Event(s, t))
    ELSE sts

\* log pushing an Event at every call.
log_always(sts, s, t) == Append(sts, Event(s, t))

\* A log that keeps only its first Event.
log_first_only(sts, s, t) == IF sts = <<>> THEN <<Event(s, t)>> ELSE sts

\* Logger::log: the states after log(s) at clock reading t.
log(sts, s, t) ==
    LET len == Len(sts)
    IN  IF len = 0 \/ sts[len].state # s
        THEN Append(sts, Event(s, t))
        ELSE sts

\* Span::from tagging the span with the state of the later Event.
Span_from_end_state(ev_start, ev_end) ==
    LET d == ev_end.time - ev_start.time
    IN  [state |-> ev_end.state,
         duration |-> <<d \div 1000, (d % 1000) \div 100>>]

\* Span::from.  The duration is the text "{secs}.{tenths}", held here as
\* the pair <<secs, tenths>> of the two numbers printed.
Span_from(ev_start, ev_end) ==
    LET d == ev_end.time - ev_start.time
        secs == d \div 1000
        tenths == (d % 1000) \div 100
    IN  [state |-> ev_start.state, duration |-> <<secs, tenths>>]

\* slice::windows(2): the adjacent pairs, none for fewer than two elements.
windows2(sts) ==
    IF Len(sts) < 2 THEN <<>>
    ELSE [i \in 1..(Len(sts) - 1) |-> <<sts[i], sts[i + 1]>>]

\* Formatted::from (Logger::format)
format(t, sts) ==
    LET w == windows2(sts)
    IN  [title |-> t,
         events |-> [i \in 1..Len(w) |-> Span_from(w[i][1], w[i][2])]]

\* ----------------------------------------------------------- mod parser

\* u64::MAX, at the width of the model.
U64_MAX == 2 ^ WordBits - 1

\* Result<_, ()> and a panic.
Ok(v) == <<"Ok", v>>
Err == <<"Err">>
Panic == <<"Panic">>
IsOk(r) == r # <<>> /\ r[1] = "Ok"

DigitChars == <<"0", "1", "2", "3", "4", "5", "6", "7", "8", "9">>
IsDigit(c) == \E i \in 1..10 : DigitChars[i] = c
DigitValue(c) == (CHOOSE i \in 1..10 : DigitChars[i] = c) - 1

\* u64::from_str, the digit loop: checked_mul and checked_add, an Err at a
\* character that is no digit and at a value over u64::MAX.
RECURSIVE parse_digits(_, _)
parse_digits(s, acc) ==
    IF s = <<>> THEN Ok(acc)
    ELSE IF ~IsDigit(Head(s)) THEN Err
    ELSE LET v == acc * 10 + DigitValue(Head(s))
         IN  IF v > U64_MAX THEN Err ELSE parse_digits(Tail(s), v)

\* parse_part reading the empty string as 0.
parse_part_empty_zero(s) ==
    IF s = <<>> THEN Ok(0)
    ELSE IF Head(s) = "+"
         THEN IF Tail(s) = <<>> THEN Err ELSE parse_digits(Tail(s), 0)
         ELSE parse_digits(s, 0)

\* parser::parse_part: s.parse::<u64>().  An empty string is an Err, one
\* leading "+" is accepted, a "-" is not.
parse_part(s) ==
    IF s = <<>> THEN Err
    ELSE IF Head(s) = "+"
         THEN IF Tail(s) = <<>> THEN Err ELSE parse_digits(Tail(s), 0)
         ELSE parse_digits(s, 0)

\* str::split(":"): the parts between the colons, one more than the
\* colons; the empty string gives the one empty part.
RECURSIVE split(_)
split(s) ==
    IF s = <<>> THEN << <<>> >>
    ELSE LET rest == split(Tail(s))
         IN  IF Head(s) = ":"
             THEN << <<>> >> \o rest
             ELSE << <<Head(s)>> \o rest[1] >> \o Tail(rest)

\* A total computed in u64: under overflow checks (a debug build) an
\* overflowing `*` or `+` panics, without them (a release build) it wraps.
\* The operands are not negative, so one of them overflows exactly when
\* the exact total is over u64::MAX.
u64_total(exact, overflow_checks) ==
    IF exact <= U64_MAX THEN Ok(exact)
    ELSE IF overflow_checks THEN Panic
    ELSE Ok(exact % (U64_MAX + 1))

\* parser::parse_time
parse_time(raw, overflow_checks) ==
    LET parts == split(raw)
    IN  CASE Len(parts) = 3 ->
               LET hours == parse_part(parts[1])
                   minutes == parse_part(parts[2])
                   seconds == parse_part(parts[3])
               IN  IF ~IsOk(hours) THEN Err
                   ELSE IF ~IsOk(minutes) THEN Err
                   ELSE IF ~IsOk(seconds) THEN Err
                   ELSE u64_total(hours[2] * 3600 + minutes[2] * 60
                                    + seconds[2], overflow_checks)
          [] Len(parts) = 2 ->
               LET minutes == parse_part(parts[1])
                   seconds == parse_part(parts[2])
               IN  IF ~IsOk(minutes) THEN Err
                   ELSE IF ~IsOk(seconds) THEN Err
                   ELSE u64_total(minutes[2] * 60 + seconds[2],
                                  overflow_checks)
          [] Len(parts) = 1 ->
               LET seconds == parse_part(parts[1])
               IN  IF ~IsOk(seconds) THEN Err ELSE Ok(seconds[2])
          [] OTHER -> Err

\* ------------------------------------------------------------ mod timer, render

\* timer::SEC_IN_HOUR
SEC_IN_HOUR == 3600

\* Duration::as_secs and Duration::subsec_millis of a time in milliseconds.
as_secs(d) == d \div 1000
subsec_millis(d) == d % 1000

\* A count that rounds up only past 150 ms of remainder.
fudged_by_remainder(left) ==
    IF subsec_millis(left) > 150 THEN as_secs(left) + 1 ELSE as_secs(left)

\* to_digit_strs: `let mut tmp = if as_secs > 0 || left.subsec_millis() > 150
\* { as_secs + 1 } else { 0 }`
fudged(left) ==
    IF as_secs(left) > 0 \/ subsec_millis(left) > 150
    THEN as_secs(left) + 1
    ELSE 0

\* format!("{}", n) and format!("{:02}", n), as characters.
RECURSIVE decimal(_)
decimal(n) ==
    IF n < 10 THEN <<DigitChars[n + 1]>>
    ELSE Append(decimal(n \div 10), DigitChars[(n % 10) + 1])

two_digits(n) == IF n < 10 THEN <<"0">> \o decimal(n) ELSE decimal(n)

\* to_digit_strs: hours, minutes and seconds of tmp in
\* format!("{}{:02}:{:02}", maybe_str!(format!("{}:", hours), total >=
\* SEC_IN_HOUR), minutes, seconds)
clock_text(tmp, total) ==
    LET hours == tmp \div 3600
        minutes == (tmp % 3600) \div 60
        seconds == (tmp % 3600) % 60
    IN  (IF total >= SEC_IN_HOUR THEN decimal(hours) \o <<":">> ELSE <<>>)
            \o two_digits(minutes) \o <<":">> \o two_digits(seconds)

\* str::split(""): an empty string before and after the characters.
split_chars(txt) == <<"">> \o txt \o <<"">>

\* join(" ") of the pieces of split(""): a space on both sides of every
\* character.
RECURSIVE join_spaced(_)
join_spaced(txt) ==
    IF txt = <<>> THEN <<" ">>
    ELSE <<" ", Head(txt)>> \o join_spaced(Tail(txt))

\* timer::to_digit_strs of a Countdown with this duration and running.
to_digit_strs(dur, run) ==
    IF checked_sub(dur, run) = NoDuration
    THEN <<>>
    ELSE LET left == checked_sub(dur, run)[1]
         IN  split_chars(join_spaced(clock_text(fudged(left), as_secs(dur))))

\* ------------------------------------------------------------ mod pomo

\* pomo::FAREWELL_BELLS
FAREWELL_BELLS == 5

\* The bytes of a key: b'q', b' ', the 0 that key_bytes starts as, and any
\* other.
KEY_Q == "q"
KEY_SPACE == " "
KEY_NUL == "NUL"
KEY_OTHER == "x"

\* A loop that never breaks.
after_log_reads(s) == "read"

\* run's loop ends on Finished (the break) and reads a key otherwise.
after_log(s) == IF s = Finished THEN "after_loop" ELSE "read"

\* A match whose b' ' arm takes every key but b'q'.
on_key_any_toggles(b) ==
    IF b = KEY_Q THEN "finish"
    ELSE IF b = KEY_NUL THEN "none"
    ELSE "toggle"

\* The match of run on key_bytes[0].
on_key(b) ==
    IF b = KEY_Q THEN "finish"
    ELSE IF b = KEY_SPACE THEN "toggle"
    ELSE "none"

\* A b'q' arm without its `continue`.
after_command_no_continue(c) == IF c = "toggle" THEN "bell" ELSE "clear"

\* Where each arm of the match leaves run: b'q' continues the loop, b' '
\* rings once, anything else goes on to draw.
after_command(c) ==
    IF c = "finish" THEN "tick"
    ELSE IF c = "toggle" THEN "bell"
    ELSE "clear"

\* A single farewell bell.
farewell_once(s) == IF s = Finished THEN 1 ELSE 0

\* How often run rings after its loop: ring(FAREWELL_BELLS, ..) under
\* `if State::Finished == self.current.tick()`.
farewell(s) == IF s = Finished THEN FAREWELL_BELLS ELSE 0

\* A cleanup that stops after the restoring escapes.
after_restore_only(ok) == "returned"

\* A ring that stops one bell early.
ring_more_early(n, times) == n + 1 < times

\* Pomodoro::ring: `while rings < times`
ring_more(n, times) == n < times

\* Pomodoro::cleanup writes the restoring escapes, then the log.
after_restore(ok) == IF ok THEN "payload" ELSE "returned"

\* Pomodoro, before run is called; so it stays where run is not modelled.
NotRun ==
    /\ pc = "idle"
    /\ key_bytes = <<KEY_NUL>>
    /\ events = <<>>
    /\ tick_hist = <<>>
    /\ q_at = 0
    /\ tick_accum = <<0, 0>>
    /\ io_err = FALSE
    /\ result = None
    /\ rings = 0
    /\ digits = <<>>

\* ------------------------------------- the Countdown under any caller

Init ==
    /\ now \in Starts
    /\ \E d \in Targets : new(d, now)
    /\ panicked = FALSE
    /\ op = "new"
    /\ ret = None
    /\ elapsed = 0
    /\ ntoggles = 0
    /\ quit = FALSE
    /\ last_tick = 0
    /\ t_pause = 0
    /\ pause_len = 0
    /\ Logger_new("")
    /\ formatted = <<>>
    /\ last_logged = None
    /\ nchanges = 0
    /\ raw_time = <<>>
    /\ parsed = <<>>
    /\ NotRun

Tick ==
    /\ ~panicked
    /\ tick
    /\ op' = "tick"
    /\ UNCHANGED <<now, start, duration, ntoggles, quit>>
    /\ UNCHANGED svars
    /\ UNCHANGED lvars
    /\ UNCHANGED pvars
    /\ UNCHANGED rvars
    /\ UNCHANGED dvars

Toggle ==
    /\ ~panicked
    /\ ntoggles < MaxToggles
    /\ toggle
    /\ op' = "toggle"
    /\ ntoggles' = ntoggles + 1
    /\ UNCHANGED <<now, start, duration, quit>>
    /\ UNCHANGED svars
    /\ UNCHANGED lvars
    /\ UNCHANGED pvars
    /\ UNCHANGED rvars
    /\ UNCHANGED dvars

Finish ==
    /\ ~panicked
    /\ finish
    /\ op' = "finish"
    /\ quit' = TRUE
    /\ UNCHANGED <<now, start, duration, ntoggles>>
    /\ UNCHANGED svars
    /\ UNCHANGED lvars
    /\ UNCHANGED pvars
    /\ UNCHANGED rvars
    /\ UNCHANGED dvars

Advance ==
    /\ ~panicked
    /\ \E d \in Steps :
        /\ now + d <= MaxNow
        /\ now' = now + d
    /\ op' = "wait"
    /\ UNCHANGED <<state, start, duration, running, paused, panicked,
                   ret, elapsed, ntoggles, quit>>
    /\ UNCHANGED svars
    /\ UNCHANGED lvars
    /\ UNCHANGED pvars
    /\ UNCHANGED rvars
    /\ UNCHANGED dvars

Next == Tick \/ Toggle \/ Finish \/ Advance

Spec == Init /\ [][Next]_vars

\* ------------------------------------------- the one-pause session
\* A Countdown of SessionTarget ticked at least every SLEEP; toggle() is
\* called once to pause and, about SessionPause later, once to resume.

InitSession ==
    /\ now = 0
    /\ new(SessionTarget, now)
    /\ panicked = FALSE
    /\ op = "new"
    /\ ret = None
    /\ elapsed = 0
    /\ ntoggles = 0
    /\ quit = FALSE
    /\ last_tick = 0
    /\ t_pause = 0
    /\ pause_len = 0
    /\ Logger_new("")
    /\ formatted = <<>>
    /\ last_logged = None
    /\ nchanges = 0
    /\ raw_time = <<>>
    /\ parsed = <<>>
    /\ NotRun

SessionTick ==
    /\ ~panicked
    /\ tick
    /\ op' = "tick"
    /\ last_tick' = now
    /\ UNCHANGED <<now, start, duration, ntoggles, quit, t_pause, pause_len>>
    /\ UNCHANGED lvars
    /\ UNCHANGED pvars
    /\ UNCHANGED rvars
    /\ UNCHANGED dvars

SessionPauseToggle ==
    /\ ~panicked
    /\ ntoggles = 0
    /\ state = Running
    /\ toggle
    /\ op' = "toggle"
    /\ ntoggles' = 1
    /\ t_pause' = now
    /\ UNCHANGED <<now, start, duration, quit, last_tick, pause_len>>
    /\ UNCHANGED lvars
    /\ UNCHANGED pvars
    /\ UNCHANGED rvars
    /\ UNCHANGED dvars

SessionResumeToggle ==
    /\ ~panicked
    /\ ntoggles = 1
    /\ now - t_pause \in SessionWaits
    /\ toggle
    /\ op' = "toggle"
    /\ ntoggles' = 2
    /\ pause_len' = now - t_pause
    /\ UNCHANGED <<now, start, duration, quit, last_tick, t_pause>>
    /\ UNCHANGED lvars
    /\ UNCHANGED pvars
    /\ UNCHANGED rvars
    /\ UNCHANGED dvars

SessionAdvance ==
    /\ ~panicked
    /\ \E d \in Steps :
        /\ now + d <= SessionMaxNow
        /\ now + d - last_tick <= SLEEP
        /\ now' = now + d
    /\ op' = "wait"
    /\ UNCHANGED <<state, start, duration, running, paused, panicked,
                   ret, elapsed, ntoggles, quit>>
    /\ UNCHANGED svars
    /\ UNCHANGED lvars
    /\ UNCHANGED pvars
    /\ UNCHANGED rvars
    /\ UNCHANGED dvars

NextSession ==
    SessionTick \/ SessionPauseToggle \/ SessionResumeToggle \/ SessionAdvance

SpecSession == InitSession /\ [][NextSession]_vars

\* ------------------------------------------ the Logger under any caller

InitLogger ==
    /\ now = 0
    /\ new(0, now)
    /\ panicked = FALSE
    /\ op = "new"
    /\ ret = None
    /\ elapsed = 0
    /\ ntoggles = 0
    /\ quit = FALSE
    /\ last_tick = 0
    /\ t_pause = 0
    /\ pause_len = 0
    /\ \E t \in Titles : Logger_new(t)
    /\ formatted = <<>>
    /\ last_logged = None
    /\ nchanges = 0
    /\ raw_time = <<>>
    /\ parsed = <<>>
    /\ NotRun

LogCall ==
    /\ \E s \in State :
        /\ Len(log(states, s, now)) <= MaxLog
        /\ nchanges < MaxLog
        /\ states' = log(states, s, now)
        /\ last_logged' = s
        /\ nchanges' =
              IF last_logged # None /\ last_logged # s
              THEN nchanges + 1 ELSE nchanges
    /\ op' = "log"
    /\ UNCHANGED <<title, formatted>>
    /\ UNCHANGED pvars
    /\ UNCHANGED <<now, state, start, duration, running, paused, panicked,
                   ret, elapsed, ntoggles, quit>>
    /\ UNCHANGED svars
    /\ UNCHANGED rvars
    /\ UNCHANGED dvars

FormatCall ==
    /\ formatted' = <<format(title, states)>>
    /\ op' = "format"
    /\ UNCHANGED <<title, states, last_logged, nchanges>>
    /\ UNCHANGED pvars
    /\ UNCHANGED <<now, state, start, duration, running, paused, panicked,
                   ret, elapsed, ntoggles, quit>>
    /\ UNCHANGED svars
    /\ UNCHANGED rvars
    /\ UNCHANGED dvars

LogAdvance ==
    /\ \E d \in LogSteps :
        /\ now + d <= LogMaxNow
        /\ now' = now + d
    /\ op' = "wait"
    /\ UNCHANGED <<state, start, duration, running, paused, panicked,
                   ret, elapsed, ntoggles, quit>>
    /\ UNCHANGED svars
    /\ UNCHANGED lvars
    /\ UNCHANGED pvars
    /\ UNCHANGED rvars
    /\ UNCHANGED dvars

NextLogger == LogCall \/ FormatCall \/ LogAdvance

SpecLogger == InitLogger /\ [][NextLogger]_vars

\* ------------------------------------------------- parse_time, called

\* The strings of at most n characters of RawAlphabet.
RECURSIVE RawStrings(_)
RawStrings(n) ==
    IF n = 0 THEN { <<>> }
    ELSE LET shorter == RawStrings(n - 1)
         IN  shorter \cup { <<c>> \o r : c \in RawAlphabet, r \in shorter }

InitParse ==
    /\ now = 0
    /\ new(0, now)
    /\ panicked = FALSE
    /\ op = "new"
    /\ ret = None
    /\ elapsed = 0
    /\ ntoggles = 0
    /\ quit = FALSE
    /\ last_tick = 0
    /\ t_pause = 0
    /\ pause_len = 0
    /\ Logger_new("")
    /\ formatted = <<>>
    /\ last_logged = None
    /\ nchanges = 0
    /\ raw_time \in RawStrings(MaxRawLen) \cup RawExamples
    /\ parsed = <<>>
    /\ NotRun

ParseTime ==
    /\ parsed = <<>>
    /\ \E overflow_checks \in BOOLEAN :
        parsed' = parse_time(raw_time, overflow_checks)
    /\ op' = "parse_time"
    /\ UNCHANGED raw_time
    /\ UNCHANGED <<now, state, start, duration, running, paused, panicked,
                   ret, elapsed, ntoggles, quit>>
    /\ UNCHANGED svars
    /\ UNCHANGED lvars
    /\ UNCHANGED rvars
    /\ UNCHANGED dvars

NextParse == ParseTime

SpecParse == InitParse /\ [][NextParse]_vars

\* --------------------------------------------- to_digit_strs, called

\* The most whole seconds of a short target.
MaxTargetSecs == 3

\* Targets of whole seconds, as parse_time makes them: short ones, the
\* last under an hour and an hour.
DigitTargets ==
    { k * 1000 : k \in 0..MaxTargetSecs }
        \cup { (SEC_IN_HOUR - 1) * 1000, SEC_IN_HOUR * 1000 }

\* Running times near the start and near the end of a target, and past the
\* end of a short one.
DigitRunnings(d) ==
    LET near == { r * 50 : r \in 0..(MaxTargetSecs * 20 + 2) }
    IN  near \cup { d - r : r \in { x \in near : x <= d } }

\* A Countdown that has run, unpaused, for `running` up to its last tick.
InitDigits ==
    /\ \E d \in DigitTargets :
        /\ duration = d
        /\ running \in DigitRunnings(d)
    /\ start = 0
    /\ now = running
    /\ elapsed = running
    /\ paused = 0
    /\ state = Running
    /\ panicked = FALSE
    /\ op = "tick"
    /\ ret = Running
    /\ ntoggles = 0
    /\ quit = FALSE
    /\ last_tick = 0
    /\ t_pause = 0
    /\ pause_len = 0
    /\ Logger_new("")
    /\ formatted = <<>>
    /\ last_logged = None
    /\ nchanges = 0
    /\ raw_time = <<>>
    /\ parsed = <<>>
    /\ NotRun

ToDigitStrs ==
    /\ digits = <<>>
    /\ digits' = <<to_digit_strs(duration, running)>>
    /\ op' = "to_digit_strs"
    /\ UNCHANGED <<now, state, start, duration, running, paused, panicked,
                   ret, elapsed, ntoggles, quit>>
    /\ UNCHANGED svars
    /\ UNCHANGED lvars
    /\ UNCHANGED pvars
    /\ UNCHANGED rvars

NextDigits == ToDigitStrs

SpecDigits == InitDigits /\ [][NextDigits]_vars

\* ------------------------------------------------------ Pomodoro::run

\* The most `now` a sleep of the loop may reach.
RunMaxNow == 450

\* What sleep(SLEEP) may take, and what a read and the match after it may.
Sleeps == {SLEEP, SLEEP + 50}
ReadLatency == {0, 50}

InitRun ==
    /\ now \in Starts
    /\ \E d \in Targets : new(d, now)
    /\ panicked = FALSE
    /\ op = "new"
    /\ ret = None
    /\ elapsed = 0
    /\ ntoggles = 0
    /\ quit = FALSE
    /\ last_tick = 0
    /\ t_pause = 0
    /\ pause_len = 0
    /\ \E t \in Titles : Logger_new(t)
    /\ formatted = <<>>
    /\ last_logged = None
    /\ nchanges = 0
    /\ raw_time = <<>>
    /\ parsed = <<>>
    /\ pc = "start"
    /\ key_bytes = <<KEY_NUL>>
    /\ events = <<>>
    /\ tick_hist = <<>>
    /\ q_at = 0
    /\ tick_accum = <<0, 0>>
    /\ io_err = FALSE
    /\ result = None
    /\ rings = 0
    /\ digits = <<>>

\* An operation followed by `?` has failed: run returns the error.
Fail ==
    /\ pc' = "returned"
    /\ io_err' = TRUE
    /\ result' = "Err"

\* The Countdown with its caller's counters, as an action leaves them alone.
countdown == <<state, start, duration, running, paused, panicked, ret,
               elapsed, ntoggles, quit, op>>

\* writeln!(clear::All, cursor::Hide, cursor::Goto(1, 1))?
RunSetup ==
    /\ pc = "start"
    /\ \E ok \in BOOLEAN :
        IF ok
        THEN /\ pc' = "tick"
             /\ UNCHANGED <<io_err, result>>
        ELSE Fail
    /\ UNCHANGED <<key_bytes, events, tick_hist, q_at, tick_accum, rings>>
    /\ UNCHANGED <<now, countdown>>
    /\ UNCHANGED <<svars, lvars, pvars>>
    /\ UNCHANGED dvars

\* let curr_state = self.current.tick()
LoopTick ==
    /\ pc = "tick"
    /\ tick
    /\ op' = "tick"
    /\ IF panicked'
       THEN /\ pc' = "panicked"
            /\ UNCHANGED <<events, tick_hist, tick_accum>>
       ELSE /\ pc' = "log"
            /\ events' = <<"tick">>
            /\ tick_hist' = Append(tick_hist, ret')
            /\ tick_accum' =
                  IF q_at = 0 THEN <<running', paused'>> ELSE tick_accum
    /\ UNCHANGED <<key_bytes, q_at, io_err, result, rings>>
    /\ UNCHANGED <<now, start, duration, ntoggles, quit>>
    /\ UNCHANGED <<svars, lvars, pvars>>
    /\ UNCHANGED dvars

\* self.logger.log(curr_state); if curr_state == Finished { break; }
LoopLog ==
    /\ pc = "log"
    /\ states' = log(states, ret, now)
    /\ last_logged' = ret
    /\ nchanges' =
          IF last_logged # None /\ last_logged # ret
          THEN nchanges + 1 ELSE nchanges
    /\ pc' = after_log(ret)
    /\ events' =
          IF after_log(ret) = "after_loop"
          THEN events \o <<"log", "exit">>
          ELSE Append(events, "log")
    /\ UNCHANGED <<title, formatted>>
    /\ UNCHANGED <<key_bytes, tick_hist, q_at, tick_accum, io_err, result,
                   rings>>
    /\ UNCHANGED <<now, countdown>>
    /\ UNCHANGED <<svars, pvars>>
    /\ UNCHANGED dvars

\* let mut key_bytes = [0]; self.stdin.read(&mut key_bytes)?
\* The read fails, or finds no byte, or one.
LoopRead ==
    /\ pc = "read"
    /\ \E d \in ReadLatency :
        /\ now + d <= RunMaxNow
        /\ now' = now + d
    /\ \E n \in {"Err", "Ok(0)", "Ok(1)"} :
        IF n = "Err"
        THEN /\ Fail
             /\ key_bytes' = <<KEY_NUL>>
             /\ UNCHANGED events
        ELSE /\ pc' = "command"
             /\ UNCHANGED <<io_err, result>>
             /\ IF n = "Ok(0)"
                THEN /\ key_bytes' = <<KEY_NUL>>
                     /\ events' = Append(events, "read")
                ELSE /\ \E b \in {KEY_Q, KEY_SPACE, KEY_NUL, KEY_OTHER} :
                          key_bytes' = <<b>>
                     /\ events' = events \o <<"read", "byte">>
    /\ UNCHANGED <<tick_hist, q_at, tick_accum, rings>>
    /\ UNCHANGED countdown
    /\ UNCHANGED <<svars, lvars, pvars>>
    /\ UNCHANGED dvars

\* match key_bytes[0] { b'q' => .., b' ' => .., _ => {} }, up to ring_once
LoopCommand ==
    /\ pc = "command"
    /\ LET c == on_key(key_bytes[1])
       IN  /\ pc' = after_command(c)
           /\ IF c = "finish"
              THEN /\ finish
                   /\ op' = "finish"
                   /\ quit' = TRUE
                   /\ q_at' = Len(tick_hist)
                   /\ events' = Append(events, "finish")
                   /\ UNCHANGED ntoggles
              ELSE IF c = "toggle"
              THEN /\ toggle
                   /\ op' = "toggle"
                   /\ ntoggles' = ntoggles + 1
                   /\ events' = Append(events, "toggle")
                   /\ UNCHANGED <<quit, q_at>>
              ELSE /\ UNCHANGED <<state, running, paused, panicked, ret,
                                  elapsed, op, ntoggles, quit, q_at, events>>
    /\ UNCHANGED <<key_bytes, tick_hist, tick_accum, io_err, result, rings>>
    /\ UNCHANGED <<now, start, duration>>
    /\ UNCHANGED <<svars, lvars, pvars>>
    /\ UNCHANGED dvars

\* self.ring_once()? of the b' ' arm: write!("\x07")?; flush()?
LoopBell ==
    /\ pc = "bell"
    /\ \E ok \in BOOLEAN :
        IF ok
        THEN /\ pc' = "clear"
             /\ events' = Append(events, "bell")
             /\ UNCHANGED <<io_err, result>>
        ELSE /\ Fail
             /\ UNCHANGED events
    /\ UNCHANGED <<key_bytes, tick_hist, q_at, tick_accum, rings>>
    /\ UNCHANGED <<now, countdown>>
    /\ UNCHANGED <<svars, lvars, pvars>>
    /\ UNCHANGED dvars

\* write!(self.stdout, "{}", clear::All);  Its Result is dropped: run goes
\* on whether the write failed or not.
LoopClear ==
    /\ pc = "clear"
    /\ pc' = "render"
    /\ \E ok \in BOOLEAN :
        IF ok
        THEN /\ events' = Append(events, "clear")
             /\ UNCHANGED io_err
        ELSE /\ io_err' = TRUE
             /\ UNCHANGED events
    /\ UNCHANGED <<key_bytes, tick_hist, q_at, tick_accum, result, rings>>
    /\ UNCHANGED <<now, countdown>>
    /\ UNCHANGED <<svars, lvars, pvars>>
    /\ UNCHANGED dvars

\* The three render calls, timer::render calling to_digit_strs, then
\* write!(..)? of each and self.stdout.flush()?
LoopRender ==
    /\ pc = "render"
    /\ \E ok \in BOOLEAN :
        IF ok
        THEN /\ pc' = "sleep"
             /\ events' = Append(events, "frame")
             /\ UNCHANGED <<io_err, result>>
        ELSE /\ pc' = "returned"
             /\ io_err' = TRUE
             /\ result' = "Err"
             /\ UNCHANGED events
    /\ digits' = <<to_digit_strs(duration, running)>>
    /\ UNCHANGED <<key_bytes, tick_hist, q_at, tick_accum, rings>>
    /\ UNCHANGED <<now, countdown>>
    /\ UNCHANGED <<svars, lvars, pvars>>

\* sleep(SLEEP), and back to the top of the loop
LoopSleep ==
    /\ pc = "sleep"
    /\ \E d \in Sleeps :
        /\ now + d <= RunMaxNow
        /\ now' = now + d
    /\ pc' = "tick"
    /\ events' = Append(events, "sleep")
    /\ UNCHANGED <<key_bytes, tick_hist, q_at, tick_accum, io_err, result,
                   rings>>
    /\ UNCHANGED countdown
    /\ UNCHANGED <<svars, lvars, pvars>>
    /\ UNCHANGED dvars

\* if timer::State::Finished == self.current.tick() { self.ring(..)? }, up
\* to `let mut rings = 0` of ring
AfterLoop ==
    /\ pc = "after_loop"
    /\ tick
    /\ op' = "tick"
    /\ IF panicked'
       THEN /\ pc' = "panicked"
            /\ UNCHANGED events
       ELSE /\ pc' = "ring"
            /\ events' = Append(events, "tick")
    /\ rings' = 0
    /\ UNCHANGED <<key_bytes, tick_hist, q_at, tick_accum, io_err, result>>
    /\ UNCHANGED <<now, start, duration, ntoggles, quit>>
    /\ UNCHANGED <<svars, lvars, pvars>>
    /\ UNCHANGED dvars

\* One turn of `while rings < times { self.ring_once()?; rings += 1;
\* sleep(delay); }` with delay = SLEEP * 3, or the end of the loop.
Ring ==
    /\ pc = "ring"
    /\ IF ring_more(rings, farewell(ret))
       THEN \E ok \in BOOLEAN :
               IF ok
               THEN /\ rings' = rings + 1
                    /\ now' = now + SLEEP * 3
                    /\ events' = Append(events, "bell")
                    /\ UNCHANGED <<pc, io_err, result>>
               ELSE /\ Fail
                    /\ UNCHANGED <<rings, now, events>>
       ELSE /\ pc' = "cleanup"
            /\ UNCHANGED <<rings, now, events, io_err, result>>
    /\ UNCHANGED <<key_bytes, tick_hist, q_at, tick_accum>>
    /\ UNCHANGED countdown
    /\ UNCHANGED <<svars, lvars, pvars>>
    /\ UNCHANGED dvars

\* cleanup: write!(Goto, clear::All, Goto, cursor::Show, ToMainScreen,
\* style::Reset)?
Cleanup ==
    /\ pc = "cleanup"
    /\ \E ok \in BOOLEAN :
        /\ pc' = after_restore(ok)
        /\ IF ok
           THEN /\ events' = Append(events, "restore")
                /\ UNCHANGED <<io_err, result>>
           ELSE /\ io_err' = TRUE
                /\ result' = "Err"
                /\ UNCHANGED events
    /\ UNCHANGED <<key_bytes, tick_hist, q_at, tick_accum, rings>>
    /\ UNCHANGED <<now, countdown>>
    /\ UNCHANGED <<svars, lvars, pvars>>
    /\ UNCHANGED dvars

\* cleanup: to_string_pretty(&self.logger.format())?; writeln!(..), whose
\* Result is cleanup's, and `self.cleanup()?; Ok(())` of run
Payload ==
    /\ pc = "payload"
    /\ formatted' = <<format(title, states)>>
    /\ pc' = "returned"
    /\ \E ok \in BOOLEAN :
        IF ok
        THEN /\ events' = Append(events, "payload")
             /\ result' = "Ok"
             /\ UNCHANGED io_err
        ELSE /\ io_err' = TRUE
             /\ result' = "Err"
             /\ UNCHANGED events
    /\ UNCHANGED <<title, states, last_logged, nchanges>>
    /\ UNCHANGED <<key_bytes, tick_hist, q_at, tick_accum, rings>>
    /\ UNCHANGED <<now, countdown>>
    /\ UNCHANGED <<svars, pvars>>
    /\ UNCHANGED dvars

NextRun ==
    \/ RunSetup \/ LoopTick \/ LoopLog \/ LoopRead \/ LoopCommand
    \/ LoopBell \/ LoopClear \/ LoopRender \/ LoopSleep
    \/ AfterLoop \/ Ring \/ Cleanup \/ Payload

SpecRun == InitRun /\ [][NextRun]_vars

\* ------------------------------- Pomodoro::run, with a user who goes on

\* The most ticks in a row a user leaves the Countdown Paused, and the most
\* often they send b' '.
MaxPausedTicks == 1
MaxLiveToggles == 2

\* How many of the last results of the loop's tick() were Paused.
RECURSIVE TrailingPaused(_)
TrailingPaused(h) ==
    IF h = <<>> \/ h[Len(h)] # Paused THEN 0
    ELSE TrailingPaused(SubSeq(h, 1, Len(h) - 1)) + 1

\* The user has to end the pause now.
MustResume == TrailingPaused(tick_hist) >= MaxPausedTicks

\* The bytes the user may send: b' ' at most MaxLiveToggles times in a run.
LiveKeys ==
    {KEY_Q}
        \cup (IF ntoggles < MaxLiveToggles THEN {KEY_SPACE} ELSE {})
        \cup (IF MustResume THEN {} ELSE {KEY_OTHER})

\* The most of a set of numbers.
MaxOf(S) == CHOOSE x \in S : \A y \in S : y <= x

\* A `now` no sleep of such a run goes past: a tick() at the start, those
\* that run the longest target out, and the Paused ones of every pause.
LiveMaxNow ==
    MaxOf(Starts)
        + MaxOf(Sleeps)
            * (MaxOf(Targets) \div SLEEP + 2
                 + ((MaxLiveToggles + 1) \div 2) * MaxPausedTicks)

\* The read of run, from that user.
LiveRead ==
    /\ pc = "read"
    /\ \E n \in {"Err", "Ok(0)", "Ok(1)"} :
        IF n = "Err"
        THEN /\ Fail
             /\ key_bytes' = <<KEY_NUL>>
             /\ UNCHANGED events
        ELSE /\ pc' = "command"
             /\ UNCHANGED <<io_err, result>>
             /\ IF n = "Ok(0)"
                THEN /\ ~MustResume
                     /\ key_bytes' = <<KEY_NUL>>
                     /\ events' = Append(events, "read")
                ELSE /\ \E b \in LiveKeys : key_bytes' = <<b>>
                     /\ events' = events \o <<"read", "byte">>
    /\ UNCHANGED <<tick_hist, q_at, tick_accum, rings>>
    /\ UNCHANGED <<now, countdown>>
    /\ UNCHANGED <<svars, lvars, pvars>>
    /\ UNCHANGED dvars

\* sleep(SLEEP), and back to the top of the loop
LiveSleep ==
    /\ pc = "sleep"
    /\ \E d \in Sleeps :
        /\ now + d <= LiveMaxNow
        /\ now' = now + d
    /\ pc' = "tick"
    /\ events' = Append(events, "sleep")
    /\ UNCHANGED <<key_bytes, tick_hist, q_at, tick_accum, io_err, result,
                   rings>>
    /\ UNCHANGED countdown
    /\ UNCHANGED <<svars, lvars, pvars>>
    /\ UNCHANGED dvars

NextRunLive ==
    \/ RunSetup \/ LoopTick \/ LoopLog \/ LiveRead \/ LoopCommand
    \/ LoopBell \/ LoopClear \/ LoopRender \/ LiveSleep
    \/ AfterLoop \/ Ring \/ Cleanup \/ Payload

\* run is a thread that keeps running: it takes its next step.
SpecRunLive == InitRun /\ [][NextRunLive]_vars /\ WF_vars(NextRunLive)

\* ---------------------------------------------------- claims, Countdown

\* C1 as stated: immediately after every tick(), one taken in Finished
\* included, running + paused is the elapsed time that tick sampled.
C1_EveryTick ==
    op = "tick" => running + paused = elapsed /\ elapsed = now - start

\* C1, amended: immediately after every tick() that was entered in Running
\* or Paused, running + paused is the elapsed time that tick sampled
\* (now - start); a tick() entered in Finished recomputes nothing.
C1_LiveTick ==
    [][op' = "tick" /\ state # Finished
        => running' + paused' = elapsed' /\ elapsed' = now' - start']_vars

\* A tick() in Paused, after running and paused time have both accrued.
C1_Witness ==
    /\ op = "tick"
    /\ ret = Paused
    /\ running > 0
    /\ paused > 0
    /\ ntoggles >= 3

\* C2 as stated: after a tick() with running >= duration, equality
\* included, the state is Finished.
C2_FinishedAtEquality ==
    op = "tick" /\ running >= duration => state = Finished

\* C2, amended: a tick() entered in Running or Paused sets the state to
\* Finished exactly when, after the recompute, running > duration
\* (strictly); at running = duration and below the state is left as it was.
\* The state it returns is the state it leaves.
C2_FinishedIffOver ==
    [][op' = "tick" /\ state # Finished
        => /\ state' = Finished <=> running' > duration
           /\ running' <= duration => state' = state
           /\ ret' = state']_vars

\* A tick() at which running equals a positive target: still Running.
C2_Witness ==
    /\ op = "tick"
    /\ duration > 0
    /\ running = duration
    /\ ret = Running

\* C3: Finished is absorbing: from Finished every step (tick, toggle,
\* finish, time passing) leaves the state Finished, and a tick() returns
\* Finished.
C3_FinishedAbsorbing ==
    [][state = Finished
        => state' = Finished /\ (op' = "tick" => ret' = Finished)]_vars

\* A tick() returning Finished in a Countdown ended by finish() before its
\* target, after a toggle() was tried.
C3_Witness ==
    /\ op = "tick"
    /\ ret = Finished
    /\ state = Finished
    /\ quit
    /\ ntoggles > 0
    /\ running < duration

\* C4: once the state is Finished, duration, running and paused never
\* change again.
C4_FrozenWhenFinished ==
    [][state = Finished
        => running' = running /\ paused' = paused /\ duration' = duration]_vars

\* A tick() taken in Finished after the clock has moved on: the sample is
\* larger than the frozen accumulators.
C4_Witness ==
    /\ op = "tick"
    /\ state = Finished
    /\ elapsed > running + paused

\* C5: toggle() maps Running to Paused, Paused to Running and Finished to
\* Finished, leaves running, paused, start and duration unchanged, and
\* toggling the state twice gives the state back.
C5_Toggle ==
    /\ [][op' = "toggle"
            => /\ state = Running => state' = Paused
               /\ state = Paused => state' = Running
               /\ state = Finished => state' = Finished
               /\ UNCHANGED <<running, paused, start, duration>>]_vars
    /\ [](toggle_state(toggle_state(state)) = state)

\* The second of two toggle() calls, back in Running with time accrued.
C5_Witness ==
    /\ op = "toggle"
    /\ ntoggles = 2
    /\ state = Running
    /\ running > 0

\* C6 as stated: with no toggle() and no finish(), every tick() whose
\* sample is at least the target (elapsed >= duration) returns Finished.
C6_FinishedFromTarget ==
    op = "tick" /\ ntoggles = 0 /\ ~quit /\ elapsed >= duration
        => ret = Finished

\* C6, amended: with no toggle() and no finish(), a tick() returns Finished
\* exactly when its sample is strictly more than the target after start
\* (elapsed > duration): so does the first such tick and every later one,
\* and a tick() at elapsed = duration still returns Running.
C6_FinishedPastTarget ==
    op = "tick" /\ ntoggles = 0 /\ ~quit
        => /\ ret = Finished <=> elapsed > duration
           /\ ret # Finished => ret = Running

\* A later tick() of an expired, never toggled Countdown.
C6_Witness ==
    /\ op = "tick"
    /\ ntoggles = 0
    /\ ~quit
    /\ duration > 0
    /\ ret = Finished
    /\ elapsed > running

\* |a - b| <= d
Within(a, b, d) == a - b <= d /\ b - a <= d

\* C7 as stated: with a 3 s target and one pause of about 1 s, at natural
\* expiry paused is within one tick interval of 1 s and running within one
\* tick interval of 2 s.
C7_RunningTwoSeconds ==
    state = Finished /\ ntoggles = 2
        => /\ Within(paused, SessionPause, SLEEP)
           /\ Within(running, SessionTarget - SessionPause, SLEEP)

\* C7, amended: with a 3 s target and one pause of about 1 s, at natural
\* expiry paused is within one tick interval of the pause (about 1 s, and
\* within one tick interval of 1 s after a pause of exactly 1 s), and
\* running is about 3 s: more than the target, by at most one tick
\* interval.  The pause does not count towards the target.
C7_RunningThreeSeconds ==
    state = Finished /\ ntoggles = 2
        => /\ Within(paused, pause_len, SLEEP)
           /\ pause_len = SessionPause => Within(paused, SessionPause, SLEEP)
           /\ running > SessionTarget
           /\ running <= SessionTarget + SLEEP

\* The tick() that ends the session after a pause of exactly 1 s that
\* neither began nor ended at a tick.
C7_Witness ==
    /\ op = "tick"
    /\ state = Finished
    /\ ntoggles = 2
    /\ pause_len = SessionPause
    /\ paused # pause_len
    /\ running + paused = elapsed

\* ------------------------------------------------------- claims, Logger

\* The states of the Events of a log, in order.
StatesOf(sts) == [i \in 1..Len(sts) |-> sts[i].state]

\* No two adjacent Events carry the same state.
NoAdjacentRepeat(sts) ==
    \A i \in 1..(Len(sts) - 1) : sts[i].state # sts[i + 1].state

\* C8: log(s) appends the one Event {s, now} iff the log is empty or its
\* last Event's state differs from s, and otherwise leaves the log as it
\* is; no step modifies or removes an Event; no two adjacent Events carry
\* the same state; and the Events number the state changes in the sequence
\* of calls plus one.
C8_Log ==
    /\ [][op' = "log"
            => IF states = <<>> \/ states[Len(states)].state # last_logged'
               THEN states' = Append(states, [state |-> last_logged',
                                              time |-> now])
               ELSE states' = states]_vars
    /\ [][/\ Len(states') >= Len(states)
          /\ \A i \in 1..Len(states) : states'[i] = states[i]]_vars
    /\ [](/\ NoAdjacentRepeat(states)
          /\ last_logged = None => states = <<>>
          /\ last_logged # None => Len(states) = nchanges + 1)

\* Running, Paused, Running, Finished logged as 4 Events, and then a
\* later log(Finished) that appended nothing.
C8_Witness ==
    /\ op = "log"
    /\ StatesOf(states) = <<Running, Paused, Running, Finished>>
    /\ nchanges = 3
    /\ last_logged = Finished
    /\ states[4].time < now

\* The example log Running@0, Paused@10s, Running@15s, Finished@25s and
\* the spans format() is to give for it.
ExampleLog ==
    <<Event(Running, 0), Event(Paused, 10000),
      Event(Running, 15000), Event(Finished, 25000)>>

ExampleFormatted ==
    <<[state |-> Running, duration |-> <<10, 0>>],
      [state |-> Paused, duration |-> <<5, 0>>],
      [state |-> Running, duration |-> <<10, 0>>]>>

\* The milliseconds the text "{secs}.{tenths}" of a Span stands for.
DurationMs(dur) == dur[1] * 1000 + dur[2] * 100

\* C9 as stated: format() on a log of n >= 1 Events yields n - 1 spans, in
\* log order; span i has the state of Event i and as its duration the
\* difference of the timestamps of Events i + 1 and i.
C9_ExactDurations ==
    op = "format" /\ Len(states) >= 1
        => LET ev == formatted[1].events
           IN  /\ Len(ev) = Len(states) - 1
               /\ \A i \in 1..Len(ev) :
                    /\ ev[i].state = states[i].state
                    /\ DurationMs(ev[i].duration)
                         = states[i + 1].time - states[i].time

\* C9, amended: format() on a log of n >= 1 Events yields n - 1 spans (and
\* none on an empty log), in log order; span i has the state of Event i
\* and as its duration the difference of the timestamps of Events i + 1 and
\* i cut down to whole tenths of a second, as "<seconds>.<tenths>"; the
\* last Event gets no span, and format() does not modify the log.  The
\* example log gives (Running, 10.0), (Paused, 5.0), (Running, 10.0).
C9_TruncatedDurations ==
    /\ [][op' = "format" => states' = states /\ title' = title]_vars
    /\ [](op = "format"
            => LET ev == formatted[1].events
               IN  /\ formatted[1].title = title
                   /\ Len(ev) = IF states = <<>> THEN 0 ELSE Len(states) - 1
                   /\ \A i \in 1..Len(ev) :
                        LET d == states[i + 1].time - states[i].time
                        IN  /\ ev[i].state = states[i].state
                            /\ ev[i].duration[2] \in 0..9
                            /\ DurationMs(ev[i].duration) <= d
                            /\ d < DurationMs(ev[i].duration) + 100)
    /\ [](op = "format" /\ states = ExampleLog
            => formatted[1].events = ExampleFormatted)

\* format() on Running, Paused, Running, Finished, with a span whose
\* length is no whole number of tenths.
C9_Witness ==
    /\ op = "format"
    /\ StatesOf(states) = <<Running, Paused, Running, Finished>>
    /\ Len(formatted[1].events) = 3
    /\ \E i \in 1..3 : (states[i + 1].time - states[i].time) % 100 # 0

\* ------------------------------------------------------- claims, parser

\* The fields of a string: what lies between its colons.
ColonsOf(raw) == { i \in 1..Len(raw) : raw[i] = ":" }

FieldOf(raw, k) ==
    LET cuts == ColonsOf(raw) \cup {0, Len(raw) + 1}
        from == CHOOSE i \in cuts : Cardinality({j \in cuts : j < i}) = k - 1
        to == CHOOSE i \in cuts : Cardinality({j \in cuts : j < i}) = k
    IN  SubSeq(raw, from + 1, to - 1)

NumFields(raw) == Cardinality(ColonsOf(raw)) + 1

\* A non-negative decimal integer: digits, at least one.
IsDecimal(f) == f # <<>> /\ \A i \in 1..Len(f) : IsDigit(f[i])

\* The number a decimal field of at most 9 digits writes.
RECURSIVE DecimalValue(_)
DecimalValue(f) ==
    IF f = <<>> THEN 0
    ELSE DecimalValue(SubSeq(f, 1, Len(f) - 1)) * 10 + DigitValue(f[Len(f)])

\* 1, 2 or 3 decimal fields separated by ":".
WellFormed(raw) ==
    /\ NumFields(raw) \in 1..3
    /\ \A k \in 1..NumFields(raw) : IsDecimal(FieldOf(raw, k))

\* The seconds a well formed string stands for: the fields weighted
\* 1, 60:1 or 3600:60:1, the most significant first.
SecondsOf(raw) ==
    LET n == NumFields(raw)
        v(k) == DecimalValue(FieldOf(raw, k))
    IN  CASE n = 1 -> v(1)
          [] n = 2 -> v(1) * 60 + v(2)
          [] n = 3 -> v(1) * 3600 + v(2) * 60 + v(3)

\* Every field is a number u64 holds.
FieldsInU64(raw) ==
    \A k \in 1..NumFields(raw) : DecimalValue(FieldOf(raw, k)) <= U64_MAX

\* C10: for every input of 1, 2 or 3 non-negative decimal integer fields
\* (each a number u64 holds) separated by ":", parse_time returns Ok with
\* exactly the sum of the fields times their multipliers 1, 60:1 or
\* 3600:60:1, as seconds, whatever the size of a field.
C10_ExactSum ==
    parsed # <<>> /\ WellFormed(raw_time) /\ FieldsInU64(raw_time)
        => parsed = Ok(SecondsOf(raw_time))

\* What remains of C10 where the sum fits u64: on those inputs parse_time
\* returns exactly the sum, with no range check on a field ("90:00" is
\* 5400 s).
C10_ExactSumInRange ==
    parsed # <<>> /\ WellFormed(raw_time) /\ SecondsOf(raw_time) <= U64_MAX
        => parsed = Ok(SecondsOf(raw_time))

\* A field u64::from_str reads as a number when it is small enough:
\* decimal digits, with one "+" before them or none.
IsSignedDecimal(f) ==
    \/ IsDecimal(f)
    \/ f # <<>> /\ Head(f) = "+" /\ IsDecimal(Tail(f))

\* Some field of the string fails the test.
SomeFieldNot(raw, Test(_)) ==
    \E k \in 1..NumFields(raw) : ~Test(FieldOf(raw, k))

Has(e) == \E i \in 1..Len(events) : events[i] = e
Count(e) == Cardinality({ i \in 1..Len(events) : events[i] = e })
Before(a, b) ==
    \A i, j \in 1..Len(events) : events[i] = a /\ events[j] = b => i < j

\* The last result of a tick() of the loop.
LastTick == IF tick_hist = <<>> THEN None ELSE tick_hist[Len(tick_hist)]

\* C12: once the loop has read b'q' it calls finish() and goes to the top
\* of the loop without drawing or sleeping; the tick() there returns
\* Finished, a Finished Event is logged and the loop is left with no
\* further read and no frame: one tick() of the loop follows the b'q', and
\* no more.
C12_Quit ==
    q_at > 0 =>
        /\ Len(tick_hist) \in {q_at, q_at + 1}
        /\ Len(tick_hist) = q_at =>
              /\ pc = "tick"
              /\ state = Finished
              /\ events[Len(events)] = "finish"
              /\ ~Has("clear") /\ ~Has("frame") /\ ~Has("sleep")
        /\ Len(tick_hist) = q_at + 1 =>
              /\ LastTick = Finished
              /\ ~Has("read") /\ ~Has("clear") /\ ~Has("frame")
              /\ ~Has("sleep")
              /\ pc # "log" =>
                    /\ Has("exit")
                    /\ states[Len(states)].state = Finished
        /\ result = "Ok" => Len(tick_hist) = q_at + 1

C12_Witness ==
    /\ q_at > 1
    /\ tick_hist[q_at] = Paused
    /\ result = "Ok"
    /\ Len(tick_hist) = q_at + 1

\* C13: an iteration of the loop reads once and takes at most one byte.
\* After b' ' it has called toggle() once and then rung once; after any
\* byte but b'q' and b' ', or none, the Countdown's state and accumulators
\* are those the tick() of the iteration left, and there was no bell.
C13_OneKey ==
    /\ Len(key_bytes) = 1
    /\ Count("read") <= 1
    /\ Count("byte") <= 1
    /\ pc \in {"clear", "render", "sleep"} /\ Has("read") =>
          IF key_bytes = <<KEY_SPACE>>
          THEN /\ Count("toggle") = 1
               /\ Count("bell") = 1
               /\ Before("toggle", "bell")
               /\ state = toggle_state(LastTick)
               /\ <<running, paused>> = tick_accum
          ELSE /\ ~Has("toggle") /\ ~Has("finish") /\ ~Has("bell")
               /\ state = LastTick
               /\ <<running, paused>> = tick_accum

C13_Witness ==
    /\ pc = "sleep"
    /\ Has("byte")
    /\ key_bytes = <<KEY_SPACE>>
    /\ state = Running
    /\ Len(tick_hist) = 2

\* C14: when the loop ended with no b'q' read, the terminal is restored
\* after exactly 5 bells.
C14_FarewellBells ==
    q_at = 0 /\ Has("restore") =>
        /\ Count("bell") = 5
        /\ Before("exit", "bell")
        /\ Before("bell", "restore")

C14_Witness ==
    /\ q_at = 0
    /\ result = "Ok"
    /\ Len(tick_hist) > 2
    /\ rings = FAREWELL_BELLS

\* C15: when the loop ended because b'q' was read, no bell rings between
\* the end of the loop and the restoring of the terminal.
C15_NoBellsAfterQuit ==
    q_at > 0 /\ Has("exit") => ~Has("bell")

\* C16: in a run with no I/O error the loop ends, then the farewell bells
\* ring, then the terminal is restored, then the serialized
\* logger.format() is written; it is written once, what is written is
\* format() of the log, and nothing of it is written before the loop ends.
C16_ShutdownOrder ==
    ~io_err =>
        /\ Has("exit") =>
              /\ Count("exit") = 1
              /\ Before("exit", "bell")
              /\ Before("exit", "restore")
        /\ Has("restore") =>
              /\ Has("exit")
              /\ Count("restore") = 1
              /\ Before("bell", "restore")
        /\ Has("payload") =>
              /\ Has("restore")
              /\ Count("payload") = 1
              /\ Before("restore", "payload")
              /\ formatted = <<format(title, states)>>
        /\ pc = "returned" => result = "Ok" /\ Has("payload")
        /\ result = "Ok" <=> Has("payload")

C16_Witness ==
    /\ ~io_err
    /\ result = "Ok"
    /\ Count("bell") = FAREWELL_BELLS
    /\ Len(states) = 4

\* C17: once a read, write or flush of run has failed, run has returned
\* the error and done nothing after the failure.
C17_ErrorAborts ==
    io_err => pc = "returned" /\ result = "Err"

\* C18: finish() makes Finished of every state and leaves the
\* accumulators alone; from the b'q' on, the accumulators are the ones the
\* tick() at the top of that iteration computed.
C18_QuitAccumulators ==
    /\ \A st \in State : finish_state(st) = Finished
    /\ q_at > 0 =>
          /\ state = Finished
          /\ <<running, paused>> = tick_accum

C18_Witness ==
    /\ q_at > 1
    /\ tick_hist[q_at] = Paused
    /\ Len(tick_hist) = q_at + 1
    /\ paused > 0
    /\ elapsed > running + paused
    /\ pc = "returned"

\* C19: the iteration whose tick() returned Finished logs and leaves the
\* loop: it reads nothing, draws nothing and does not sleep.
C19_FinishedLeaves ==
    LastTick = Finished =>
        /\ pc \in {"log", "after_loop", "ring", "cleanup", "payload",
                   "returned"}
        /\ ~Has("read") /\ ~Has("byte") /\ ~Has("clear") /\ ~Has("frame")
        /\ ~Has("sleep")
        /\ pc # "log" =>
              /\ Has("exit")
              /\ SubSeq(events, 1, 3) = <<"tick", "log", "exit">>

C19_Witness ==
    /\ LastTick = Finished
    /\ q_at = 0
    /\ pc = "after_loop"
    /\ Len(tick_hist) = 3

\* A sequence without its consecutive repeats.
RECURSIVE Dedup(_)
Dedup(h) ==
    IF Len(h) <= 1 THEN h
    ELSE LET d == Dedup(SubSeq(h, 1, Len(h) - 1))
         IN  IF h[Len(h)] = d[Len(d)] THEN d ELSE Append(d, h[Len(h)])

\* The results of the loop's tick() calls that log() has been given.
TicksLogged ==
    IF pc = "log" THEN SubSeq(tick_hist, 1, Len(tick_hist) - 1)
    ELSE tick_hist

\* C20: log() is given each result of a tick() of the loop before the
\* iteration reads or acts on a key, so the states of the log are the
\* results of the loop's tick() calls without consecutive repeats, and an
\* iteration adds at most one Event, at its log() call.
C20_LogIsTicks ==
    /\ [](StatesOf(states) = Dedup(TicksLogged))
    /\ [](pc \in {"read", "command"} => events[2] = "log")
    /\ [][/\ Len(states') <= Len(states) + 1
          /\ states' # states => pc = "log"]_vars

C20_Witness ==
    /\ StatesOf(states) = <<Running, Paused, Finished>>
    /\ Len(tick_hist) = 5
    /\ pc = "returned"

\* ------------------------------------------------ claims, to_digit_strs

\* The characters of a face without the spaces and empty strings around
\* them, and the seconds they write: [H:]MM:SS.
FaceText(face) == SelectSeq(face, LAMBDA c : c # "" /\ c # " ")
Shown(face) ==
    LET txt == FaceText(face)
        n == NumFields(txt)
    IN  (IF n = 3 THEN DecimalValue(FieldOf(txt, 1)) * 3600 ELSE 0)
            + DecimalValue(FieldOf(txt, n - 1)) * 60
            + DecimalValue(FieldOf(txt, n))

\* The time left of a Countdown that has not run past its target, and the
\* face to_digit_strs returned for it.
Left == duration - running
Drawn == digits # <<>> /\ running <= duration

\* C21 as stated: with s whole seconds and m milliseconds left the face
\* shows s + 1 when m > 150 and s when m <= 150, so it never shows more than
\* the target and shows 0 only with at most 150 ms left.
C21_RoundUpOver150 ==
    Drawn =>
        /\ Shown(digits[1]) =
              IF Left % 1000 > 150 THEN Left \div 1000 + 1
              ELSE Left \div 1000
        /\ Shown(digits[1]) <= duration \div 1000
        /\ Shown(digits[1]) = 0 => Left <= 150

\* The count the code shows: s + 1 when s > 0 or m > 150, else 0.
CountOf(left) ==
    IF left \div 1000 > 0 \/ left % 1000 > 150 THEN left \div 1000 + 1
    ELSE 0

\* C21: with s whole seconds and m milliseconds left the count shown is
\* s + 1 when s > 0 or m > 150, and 0 otherwise; the face writes it in
\* full when the target is an hour or more and modulo 3600 when not.  So a
\* target of N whole seconds shows at most N + 1, N + 1 only when nothing
\* has run, and the count is 0 only with at most 150 ms left.
C21_RoundUpUnlessLast ==
    Drawn =>
        /\ Shown(digits[1]) =
              IF duration \div 1000 >= 3600 THEN CountOf(Left)
              ELSE CountOf(Left) % 3600
        /\ CountOf(Left) <= duration \div 1000 + 1
        /\ CountOf(Left) > duration \div 1000 => running = 0
        /\ CountOf(Left) = 0 <=> Left <= 150

C21_Witness ==
    /\ Drawn
    /\ duration = 3000
    /\ Left = 1100
    /\ FaceText(digits[1]) = <<"0", "0", ":", "0", "2">>

\* --------------------------------------------- claims, parse_time again

\* C22: parse_time is total.  On a string whose fields are all numbers u64
\* holds it returns the exact sum of the weighted fields or an error: it
\* never panics and never returns a total wrapped to the width of u64.
C22_TotalNoWrap ==
    parsed # <<>> =>
        /\ parsed # Panic
        /\ IsOk(parsed) /\ WellFormed(raw_time) /\ FieldsInU64(raw_time)
              => parsed[2] = SecondsOf(raw_time)

\* ------------------------------------------ claims, the end of run

\* C23 as stated: when no pause lasts forever and time goes on, or b'q' is
\* read, run leaves its loop, shuts down and writes the log.
C23_AlwaysPayload ==
    <>(pc = "returned" /\ Has("payload"))

\* C23: when no pause lasts forever and time goes on, or b'q' is read, run
\* returns: with the log written unless a read, write or flush followed by
\* `?` failed, and then with that error.  No sleep of the loop is held
\* up, and the farewell loop ends, after FAREWELL_BELLS bells or at a
\* failed one.
C23_Returns ==
    /\ <>(pc = "returned")
    /\ [](pc = "returned" => (result = "Err" \/ Has("payload")))
    /\ [](pc = "returned" /\ result = "Err" => io_err /\ ~Has("payload"))
    /\ [](q_at > 0 => <>(pc = "returned"))
    /\ [](pc = "sleep" => now + MaxOf(Sleeps) <= LiveMaxNow)
    /\ [](pc = "ring" => <>(pc # "ring"))
    /\ [](rings <= FAREWELL_BELLS)
    /\ [](pc \in {"cleanup", "payload"} => rings = FAREWELL_BELLS)

C23_Witness ==
    /\ pc = "returned"
    /\ Has("payload")
    /\ q_at = 0
    /\ ntoggles = 2
    /\ rings = FAREWELL_BELLS

\* ------------------------------------------- claims, Countdown again

\* The time between the last tick() of a live Countdown and now.
SinceLastTick == (now - start) - (running + paused)

\* C24: a tick() in Running leaves paused_accum alone and a tick() in
\* Paused leaves running_accum alone, and the accumulator of the state
\* held at the tick() gains all the time since the tick() before, whatever
\* toggles came between; in Paused no step at all moves running_accum.
C24_TickCredits ==
    [][/\ op' = "tick" /\ ~panicked' /\ state = Running
            => paused' = paused /\ running' = running + SinceLastTick
       /\ op' = "tick" /\ ~panicked' /\ state = Paused
            => running' = running /\ paused' = paused + SinceLastTick
       /\ state = Paused => running' = running]_vars

\* A tick() in Paused after 100 of running time and one toggle, crediting
\* 150 to paused_accum.
C24_Witness ==
    /\ op = "tick"
    /\ ret = Paused
    /\ ntoggles = 1
    /\ running = 100
    /\ paused = 150
    /\ ~quit

\* C25: under a clock that does not go back, whatever the order of
\* tick(), toggle() and finish(), tick() never panics on a subtraction,
\* and running_accum and paused_accum never decrease.
C25_NoUnderflow ==
    /\ [](~panicked)
    /\ [](running >= 0 /\ paused >= 0 /\ running + paused <= now - start)
    /\ [][running' >= running /\ paused' >= paused]_vars

C25_Witness ==
    /\ op = "tick"
    /\ quit
    /\ ntoggles >= 2
    /\ running > 0
    /\ paused > 0
    /\ elapsed > running + paused

\* ------------------------------------ claims, the log and the face of run

\* Running at the odd places, Paused at the even ones.
Alternating(i) == IF i % 2 = 1 THEN Running ELSE Paused

\* C26: once the loop has ended by its break, the log is not empty, its
\* last Event is Finished, and the Events before it are Running, Paused,
\* Running, ... in turn; so the spans format() makes of it are Running
\* and Paused ones in the same turn, one fewer than the Events, and none
\* is Finished.
C26_LogShape ==
    Has("exit") =>
        /\ states # <<>>
        /\ states[Len(states)].state = Finished
        /\ \A i \in 1..(Len(states) - 1) : states[i].state = Alternating(i)
        /\ formatted # <<>> =>
              /\ Len(formatted[1].events) = Len(states) - 1
              /\ \A k \in 1..Len(formatted[1].events) :
                    formatted[1].events[k].state = Alternating(k)

C26_Witness ==
    /\ result = "Ok"
    /\ q_at > 0
    /\ StatesOf(states) = <<Running, Paused, Finished>>
    /\ Len(formatted[1].events) = 2

\* C27: whenever run draws a frame the Countdown is Running or Paused and
\* running_accum <= duration, so to_digit_strs has time left to show and
\* does not return its empty face; and after a tick() of the loop that
\* returned Running or Paused, running_accum <= duration.
C27_FrameHasTimeLeft ==
    /\ pc \in {"clear", "render", "sleep"} =>
          /\ state \in {Running, Paused}
          /\ running <= duration
          /\ checked_sub(duration, running) # NoDuration
    /\ digits # <<>> => digits[1] # <<>>
    /\ LastTick \in {Running, Paused} => running <= duration

\* A frame drawn with no time left: the face is 00:00.
C27_Witness ==
    /\ pc = "sleep"
    /\ Has("frame")
    /\ state = Running
    /\ duration > 0
    /\ running = duration
    /\ digits # <<>>
    /\ FaceText(digits[1]) = <<"0", "0", ":", "0", "0">>

================================================================
